---- MODULE Spec2Model ----
(***************************************************************************)
(* Model of the recorder of js_interaction_detector: the RecordingSession  *)
(* (recorder/session.py), its two collaborators ActionTracker              *)
(* (recorder/action_tracker.py) and ChangeObserver                         *)
(* (recorder/change_observer.py), the record command run_record (cli.py)   *)
(* and the test generator (recorder/test_generator.py).                    *)
(*                                                                         *)
(* The browser is the environment: a session history of documents, the     *)
(* JavaScript state of the current document (window.__actionTracker,       *)
(* window.__mutations__, the installed listeners), user events, page       *)
(* changes and navigations.  Python coroutines are cut at their awaits;    *)
(* what runs between two awaits is one step.  A framenavigated event is    *)
(* delivered in the same step as the navigation that causes it.            *)
(*                                                                         *)
(* Fields named uid are history fields: they name the user event an entry  *)
(* stems from and are read by the properties only, never by the program.   *)
(***************************************************************************)
EXTENDS Naturals, Sequences, FiniteSets

\* ---------------------------------------------------------------- bounds
MaxEvents == 2      \* user events (clicks, inputs) in one behaviour
MaxChanges == 2     \* page changes (mutations, requests) in one behaviour
MaxNavs == 2        \* user-caused navigations in one behaviour
MaxPasses == 2      \* process_pending_actions calls by a caller or a poll
MaxRecordNavs == 1  \* user-caused navigations during one run of the record command
MaxCalls == 3       \* direct calls of the collaborators' methods by a caller
MaxTime == 2        \* distinct values of Date.now() in one behaviour
MaxClears == 1      \* ActionTracker.clear() calls; each allows one more user event
MaxSnippet == 4     \* lexemes in a validation snippet
MaxElements == 2    \* input elements on an analysed page

\* ------------------------------------------------- program constants
max_changes_per_action == 10

\* ---------------------------------------------------------------- values
None == "None"
AboutBlank == "about:blank"

\* The URL the session is given, and the URL the page reports after goto:
\* the browser serialises the URL ("http://site" loads as "http://site/").
GivenUrls == {"http://site/", "http://site"}
OtherUrls == {"http://site/b", "http://site/c"}

PageUrlOf(u) == IF u = "http://site" THEN "http://site/" ELSE u

StartsWithAbout(u) == u = AboutBlank

\* Elements of the original page a user acts on.
Elements == {"toggle", "email"}
Values == {"a", "ab"}
\* The same, with an input that has neither id, data-testid nor name.
TrackerElements == Elements \cup {"search"}
Timestamps == 1..MaxTime

elementInfo(e) ==
    CASE e = "toggle" -> [tag |-> "button", id |-> "toggle-btn", classes |-> <<>>,
                          testid |-> "", aria |-> "", name |-> ""]
      [] e = "email"  -> [tag |-> "input", id |-> "email", classes |-> <<>>,
                          testid |-> "", aria |-> "", name |-> "email"]
      [] e = "search" -> [tag |-> "input", id |-> "", classes |-> <<"q">>,
                          testid |-> "", aria |-> "", name |-> ""]
      [] e = "menu"   -> [tag |-> "div", id |-> "dropdown-menu", classes |-> <<"menu">>,
                          testid |-> "", aria |-> "", name |-> ""]
      [] e = "item"   -> [tag |-> "li", id |-> "", classes |-> <<"item">>,
                          testid |-> "", aria |-> "", name |-> ""]
      [] OTHER        -> [tag |-> "img", id |-> "", classes |-> <<>>,
                          testid |-> "", aria |-> "", name |-> ""]

isInputElement(e) == elementInfo(e).tag \in {"input", "textarea", "select"}

\* The element has an attribute the key is taken from.
HasKeyAttribute(e) ==
    LET i == elementInfo(e) IN i.id # "" \/ i.testid # "" \/ i.name # ""

\* element.id || data-testid || name || JSON.stringify(elementInfo): the
\* attribute's string, or the serialised elementInfo, whose timestamp field is
\* the Date.now() of the event.
elementKey(e, ts) ==
    LET i == elementInfo(e)
        str(x) == [attr |-> x, tag |-> "", classes |-> <<>>, aria |-> "", timestamp |-> 0]
    IN  IF i.id # "" THEN str(i.id)
        ELSE IF i.testid # "" THEN str(i.testid)
        ELSE IF i.name # "" THEN str(i.name)
        ELSE [attr |-> "", tag |-> i.tag, classes |-> i.classes, aria |-> i.aria,
              timestamp |-> ts]

\* generate_selector: <<selector, is_fragile>>
generate_selector(i) ==
    IF i.testid # "" THEN <<[by |-> "data-testid", tag |-> "", v |-> <<i.testid>>], FALSE>>
    ELSE IF i.id # "" THEN <<[by |-> "id", tag |-> "", v |-> <<i.id>>], FALSE>>
    ELSE IF i.aria # "" THEN <<[by |-> "aria-label", tag |-> i.tag, v |-> <<i.aria>>], FALSE>>
    ELSE IF i.classes # <<>> THEN <<[by |-> "class", tag |-> i.tag, v |-> i.classes], TRUE>>
    ELSE <<[by |-> "tag", tag |-> i.tag, v |-> <<>>], TRUE>>

VARIABLES
    url,              \* RecordingSession.url
    history, histPos, \* the browser's session history and the position in it
    winTracker,       \* window.__actionTracker is defined in the current document
    winActions,       \* window.__actionTracker.actions
    listeners,        \* the click/input listener pairs installed in the document
    winObserving,     \* window.__mutations__ is defined in the current document
    winMutations,     \* window.__mutations__
    winObservers,     \* MutationObservers installed in the current document
    requestListeners, \* on_request handlers attached to the page
    network_requests, seen_selectors, seen_api_patterns,   \* ChangeObserver fields
    playwright, browser, page, tracker, observer,          \* RecordingSession fields
    recorded_actions, original_url,
    navHandler,       \* _on_navigation is registered on the page
    tasks,            \* scheduled _handle_navigation_async tasks, by position
    pc,               \* position of the main flow
    ppa,              \* the running / last process_pending_actions call
    cli,              \* run_record: its parameters, locals and results
    nEvents, nChanges, nNavs, passes,                       \* counters of the bounds
    recoveryFailed,   \* history: a recovery task raised
    caller,           \* history: the user events since the tracker's last clear(),
                      \* the clear() calls, the direct calls of collaborator methods
    code, rule,       \* infer_validation_rule: its argument and its result
    site,             \* the page given to analyze_page: URL, elements, what fails
    analysis          \* analyze_page / run_analyze: the PageLoader, the result, the output

envVars == <<history, histPos, winTracker, winActions, listeners, winObserving,
             winMutations, winObservers>>
observerVars == <<requestListeners, network_requests, seen_selectors, seen_api_patterns>>
sessionVars == <<playwright, browser, page, tracker, observer, recorded_actions,
                 original_url, navHandler>>
inferVars == <<code, rule, site, analysis>>
vars == <<url, inferVars, caller, envVars, observerVars, sessionVars, tasks, pc, ppa, cli,
          nEvents, nChanges, nNavs, passes, recoveryFailed>>

pageUrl == history[histPos]

\* ------------------------------------------------------------------------
\* ActionTracker: the script injected by start() and the events it handles
\* ------------------------------------------------------------------------
NullEntry == [type |-> "null", el |-> "", value |-> "", uid |-> 0]

\* A JavaScript Map as a set of <<key, index>> pairs (indices count from 1).
MapHas(m, k) == \E p \in m : p[1] = k
MapGet(m, k) == (CHOOSE p \in m : p[1] = k)[2]
MapDel(m, k) == {p \in m : p[1] # k}
MapSet(m, k, i) == MapDel(m, k) \cup {<<k, i>>}

\* let lastInputClickIndex = new Map(); let inputDebounceMap = new Map();
NewListener == [lastInputClickIndex |-> {}, inputDebounceMap |-> {}]

\* actions[i] = null: beyond the end the array grows, the gap being holes,
\* which filter() skips as it skips null.
SetNull(acts, i) ==
    IF i <= Len(acts) THEN [acts EXCEPT ![i] = NullEntry]
    ELSE acts \o [j \in 1..(i - Len(acts)) |-> NullEntry]

\* One click listener: <<actions, listener>> after the event.
clickListener(acts, l, e, ts, uid) ==
    LET actionIndex == Len(acts) + 1
        pushed == Append(acts, [type |-> "click", el |-> e, value |-> "", uid |-> uid])
    IN  IF isInputElement(e)
        THEN <<pushed, [l EXCEPT !.lastInputClickIndex = MapSet(@, elementKey(e, ts), actionIndex)]>>
        ELSE <<pushed, l>>

\* One input listener: <<actions, listener>> after the event.
inputListener(acts, l, e, v, ts, uid) ==
    LET k == elementKey(e, ts)
        a1 == IF MapHas(l.lastInputClickIndex, k)
              THEN SetNull(acts, MapGet(l.lastInputClickIndex, k)) ELSE acts
        a2 == IF MapHas(l.inputDebounceMap, k)
              THEN SetNull(a1, MapGet(l.inputDebounceMap, k)) ELSE a1
        newIndex == Len(a2) + 1
    IN  <<Append(a2, [type |-> "fill", el |-> e, value |-> v, uid |-> uid]),
          [lastInputClickIndex |-> MapDel(l.lastInputClickIndex, k),
           inputDebounceMap |-> MapSet(l.inputDebounceMap, k, newIndex)]>>

\* Every installed listener of the event runs, in the order of installation.
RECURSIVE dispatchClick(_, _, _, _, _, _)
dispatchClick(acts, ls, i, e, ts, uid) ==
    IF i > Len(ls) THEN <<acts, ls>>
    ELSE LET r == clickListener(acts, ls[i], e, ts, uid)
         IN  dispatchClick(r[1], [ls EXCEPT ![i] = r[2]], i + 1, e, ts, uid)

RECURSIVE dispatchInput(_, _, _, _, _, _, _)
dispatchInput(acts, ls, i, e, v, ts, uid) ==
    IF i > Len(ls) THEN <<acts, ls>>
    ELSE LET r == inputListener(acts, ls[i], e, v, ts, uid)
         IN  dispatchInput(r[1], [ls EXCEPT ![i] = r[2]], i + 1, e, v, ts, uid)

\* _fetch_and_convert_actions: the non-null entries, converted.
RECURSIVE convertActions(_)
convertActions(raw) ==
    IF raw = <<>> THEN <<>>
    ELSE LET a == Head(raw)
             sel == generate_selector(elementInfo(a.el))
         IN  IF a.type = "null" THEN convertActions(Tail(raw))
             ELSE <<[type |-> a.type, selector |-> sel[1], is_fragile |-> sel[2],
                     hasValue |-> (a.type = "fill"),
                     value |-> IF a.type = "fill" THEN a.value ELSE "",
                     uid |-> a.uid]>> \o convertActions(Tail(raw))

fetch_and_convert_actions == IF ~winTracker THEN <<>> ELSE convertActions(winActions)

\* ------------------------------------------------------------------------
\* ChangeObserver
\* ------------------------------------------------------------------------
IGNORED_TAGS == {"script", "style", "link", "meta", "noscript", "iframe", "time",
                 "hr", "br", "svg", "path", "g", "circle", "rect", "line", "polygon",
                 "polyline", "img", "source", "picture", "canvas", "slot",
                 "faceplate-loader", "faceplate-partial", "shreddit-loading", "ac-track"}

\* An inline style is a sequence of declarations <<property, value>>.
StyleNone == <<>>
StyleHidden == << <<"display", "none">> >>
StyleShown == << <<"color", "red">>, <<"display", "block">> >>
StyleColor == << <<"color", "red">> >>

\* What the page can do: the records MutationObserver delivers.
Mutation(type, action, attr, el, old, new) ==
    [type |-> type, action |-> action, attributeName |-> attr, el |-> el,
     oldValue |-> old, newValue |-> new]

\* The record of a mutation as pushed to window.__mutations__; uid names the
\* page change it stems from.
Occurred(m, n) ==
    [type |-> m.type, action |-> m.action, attributeName |-> m.attributeName, el |-> m.el,
     oldValue |-> m.oldValue, newValue |-> m.newValue, uid |-> n]

PageMutations ==
    { Mutation("childList", "added", "", "menu", StyleNone, StyleNone),
      Mutation("childList", "added", "", "item", StyleNone, StyleNone),
      Mutation("attributes", "", "style", "menu", StyleHidden, StyleShown),
      Mutation("attributes", "", "style", "menu", StyleNone, StyleColor) }

\* A request URL: origin, path segments, extension of the last segment, query.
Url(origin, segs, ext, query) ==
    [origin |-> origin, segs |-> segs, ext |-> ext, query |-> query]

PageRequests ==
    { [method |-> "GET", url |-> Url("http://site", <<"api", "users">>, "", "page=1")],
      [method |-> "GET", url |-> Url("http://site", <<"app">>, ".js", "")] }

StaticExts == {".js", ".css", ".png", ".jpg", ".jpeg", ".gif", ".svg", ".ico",
               ".woff", ".woff2", ".ttf"}

\* url.endswith(ext): the extension ends the URL only when no query follows.
endsWithStaticExt(u) == u.query = "" /\ u.ext \in StaticExts

HasApiSegment(u) == \E i \in 1..Len(u.segs) : u.segs[i] = "api" /\ i < Len(u.segs)

\* _is_api_request, on the URLs of the model: an asset extension anywhere
\* excludes; "/api/" or one of the API path words includes.
is_api_request(u) ==
    /\ u.ext \notin (StaticExts \cup {".eot", ".map", ".webp", ".avif", ".mp4", ".webm", ".json"})
    /\ \A i \in 1..Len(u.segs) : u.segs[i] \notin {"static", "assets", "images", "fonts"}
    /\ \/ HasApiSegment(u)
       \/ \E i \in 1..Len(u.segs) : u.segs[i] \in {"search", "json", "get", "post", "data", "query"}

\* _extract_api_pattern: the query dropped; for /api/ URLs the path from /api/ on.
extract_api_pattern(u) ==
    IF HasApiSegment(u)
    THEN LET first == CHOOSE i \in 1..Len(u.segs) :
                         /\ u.segs[i] = "api" /\ i < Len(u.segs)
                         /\ \A j \in 1..(i - 1) : u.segs[j] # "api"
             after == SubSeq(u.segs, first + 1, Len(u.segs))
             stop == IF \E j \in 1..Len(after) : after[j] = "api" /\ j < Len(after)
                     THEN (CHOOSE j \in 1..Len(after) :
                              /\ after[j] = "api" /\ j < Len(after)
                              /\ \A h \in 1..(j - 1) : ~(after[h] = "api" /\ h < Len(after))) - 1
                     ELSE Len(after)
         IN  [by |-> "url", tag |-> "/api/", v |-> SubSeq(after, 1, stop)]
    ELSE [by |-> "url", tag |-> u.origin, v |-> u.segs]

\* _extract_css_property(style, "display"): the first declaration of the property.
RECURSIVE extract_css_property(_, _)
extract_css_property(style, prop) ==
    IF style = <<>> THEN ""
    ELSE IF Head(style)[1] = prop THEN Head(style)[2]
    ELSE extract_css_property(Tail(style), prop)

DOMChange(change_type, selector) ==
    [kind |-> "dom", what |-> change_type, target |-> selector, value |-> ""]
CSSChange(selector, property, value) ==
    [kind |-> "css", what |-> property, target |-> selector, value |-> value]
NetworkRequest(method, pattern) ==
    [kind |-> "network", what |-> method, target |-> pattern, value |-> ""]

\* _process_attribute_mutation: <<changes to append, seen selectors>>
process_attribute_mutation(m, seen) ==
    LET info == elementInfo(m.el)
        sel == generate_selector(info)
        current_display == extract_css_property(m.newValue, "display")
        old_display == extract_css_property(m.oldValue, "display")
    IN  IF info.tag \in IGNORED_TAGS THEN <<<<>>, seen>>
        ELSE IF m.attributeName # "style" THEN <<<<>>, seen>>
        ELSE IF sel[2] THEN <<<<>>, seen>>                 \* only_stable_selectors
        ELSE IF sel[1] \in seen THEN <<<<>>, seen>>
        ELSE IF current_display # old_display
             THEN << <<CSSChange(sel[1], "display",
                                 IF current_display # "" THEN current_display ELSE "block")>>,
                     seen \cup {sel[1]} >>
             ELSE <<<<>>, seen \cup {sel[1]}>>

\* _process_childlist_mutation: <<changes to append, seen selectors>>
process_childlist_mutation(m, seen) ==
    LET info == elementInfo(m.el)
        sel == generate_selector(info)
    IN  IF info.tag \in IGNORED_TAGS THEN <<<<>>, seen>>
        ELSE IF sel[2] THEN <<<<>>, seen>>
        ELSE IF sel[1] \in seen THEN <<<<>>, seen>>
        ELSE IF m.action \in {"added", "removed"}
             THEN << <<DOMChange(m.action, sel[1])>>, seen \cup {sel[1]} >>
             ELSE <<<<>>, seen \cup {sel[1]}>>

\* The mutation loop of after_action: <<dom_css_changes, seen selectors>>
RECURSIVE processMutations(_, _, _)
processMutations(muts, changes, seen) ==
    IF muts = <<>> THEN <<changes, seen>>
    ELSE LET m == Head(muts)
             r == IF m.type = "attributes" THEN process_attribute_mutation(m, seen)
                  ELSE IF m.type = "childList" THEN process_childlist_mutation(m, seen)
                  ELSE <<<<>>, seen>>
         IN  processMutations(Tail(muts), changes \o r[1], r[2])

\* The request loop of after_action: <<network changes, seen api patterns>>
RECURSIVE processRequests(_, _, _)
processRequests(reqs, changes, seen) ==
    IF reqs = <<>> THEN <<changes, seen>>
    ELSE LET req == Head(reqs)
             pattern == extract_api_pattern(req.url)
             dedup_key == <<req.method, pattern>>
         IN  IF is_api_request(req.url) /\ dedup_key \notin seen
             THEN processRequests(Tail(reqs),
                                  Append(changes, NetworkRequest(req.method, pattern)),
                                  seen \cup {dedup_key})
             ELSE processRequests(Tail(reqs), changes, seen)

limitChanges(cs) ==
    IF Len(cs) > max_changes_per_action THEN SubSeq(cs, 1, max_changes_per_action) ELSE cs

\* Mutant: the de-duplication memory is not kept.
after_action_NoMemory ==
    LET dc == processMutations(IF winObserving THEN winMutations ELSE <<>>, <<>>, seen_selectors)
        nw == processRequests(network_requests, <<>>, seen_api_patterns)
    IN  [changes |-> limitChanges(dc[1]) \o nw[1],
         seen_selectors |-> seen_selectors, seen_api_patterns |-> seen_api_patterns]

\* after_action, once the settle timeout has passed:
\* [changes, seen_selectors, seen_api_patterns]
after_action ==
    LET dc == processMutations(IF winObserving THEN winMutations ELSE <<>>, <<>>, seen_selectors)
        nw == processRequests(network_requests, <<>>, seen_api_patterns)
    IN  [changes |-> limitChanges(dc[1]) \o nw[1],
         seen_selectors |-> dc[2], seen_api_patterns |-> nw[2]]

\* ------------------------------------------------------------------------
\* The browser: documents, user events, page changes, navigation
\* ------------------------------------------------------------------------
OnOriginalPage == browser = "open" /\ histPos = 2

\* tracker.start(): the injected script
trackerStartActions == <<>>
trackerStartListeners == Append(listeners, NewListener)

\* A user clicks an element of the original page at time ts (the time is
\* read only for an element without key attribute).
UserClick(e, ts) ==
    /\ OnOriginalPage /\ nEvents < MaxEvents + caller.clears
    /\ HasKeyAttribute(e) => ts = 1
    /\ nEvents' = nEvents + 1
    /\ LET r == dispatchClick(winActions, listeners, 1, e, ts, nEvents + 1)
       IN  winActions' = r[1] /\ listeners' = r[2]
    /\ caller' = [caller EXCEPT !.events =
                      Append(@, [type |-> "click", el |-> e, value |-> "",
                                 uid |-> nEvents + 1])]
    /\ UNCHANGED <<url, inferVars, history, histPos, winTracker, winObserving, winMutations,
                   winObservers, observerVars, sessionVars, tasks, pc, ppa, cli,
                   nChanges, nNavs, passes, recoveryFailed>>

\* A user types into an input of the original page (one input event).
UserInput(e, v, ts) ==
    /\ OnOriginalPage /\ nEvents < MaxEvents + caller.clears /\ isInputElement(e)
    /\ HasKeyAttribute(e) => ts = 1
    /\ nEvents' = nEvents + 1
    /\ LET r == dispatchInput(winActions, listeners, 1, e, v, ts, nEvents + 1)
       IN  winActions' = r[1] /\ listeners' = r[2]
    /\ caller' = [caller EXCEPT !.events =
                      Append(@, [type |-> "fill", el |-> e, value |-> v,
                                 uid |-> nEvents + 1])]
    /\ UNCHANGED <<url, inferVars, history, histPos, winTracker, winObserving, winMutations,
                   winObservers, observerVars, sessionVars, tasks, pc, ppa, cli,
                   nChanges, nNavs, passes, recoveryFailed>>

\* The page changes its DOM: every installed MutationObserver pushes a record.
PageMutation(m) ==
    /\ OnOriginalPage /\ nChanges < MaxChanges
    /\ nChanges' = nChanges + 1
    /\ winMutations' = winMutations \o [i \in 1..winObservers |-> Occurred(m, nChanges + 1)]
    /\ UNCHANGED <<url, inferVars, caller, history, histPos, winTracker, winActions, listeners, winObserving,
                   winObservers, observerVars, sessionVars, tasks, pc, ppa, cli,
                   nEvents, nNavs, passes, recoveryFailed>>

\* The page sends a request: every attached on_request handler runs.
PageRequest(r) ==
    /\ OnOriginalPage /\ nChanges < MaxChanges
    /\ nChanges' = nChanges + 1
    /\ network_requests' =
          IF endsWithStaticExt(r.url) THEN network_requests
          ELSE network_requests \o
                  [i \in 1..requestListeners |->
                      [method |-> r.method, url |-> r.url, uid |-> nChanges + 1]]
    /\ UNCHANGED <<url, inferVars, caller, envVars, requestListeners, seen_selectors, seen_api_patterns,
                   sessionVars, tasks, pc, ppa, cli, nEvents, nNavs, passes, recoveryFailed>>

\* _on_navigation, for the main frame: the tasks after the event.
on_navigation(current_url) ==
    IF navHandler /\ page # None
       /\ current_url # original_url /\ ~StartsWithAbout(current_url)
    THEN [tasks EXCEPT !.go_back = @ + 1]
    ELSE tasks

\* A new document is loaded: the injected state of the old one is gone.
NewDocument ==
    /\ winTracker' = FALSE /\ winActions' = <<>> /\ listeners' = <<>>
    /\ winObserving' = FALSE /\ winMutations' = <<>> /\ winObservers' = 0

\* The page navigates (a clicked link, a script): framenavigated fires.
Navigate(u) ==
    /\ browser = "open" /\ histPos >= 2 /\ nNavs < MaxNavs
    /\ u # pageUrl
    /\ nNavs' = nNavs + 1
    /\ history' = Append(SubSeq(history, 1, histPos), u)
    /\ histPos' = histPos + 1
    /\ NewDocument
    /\ tasks' = on_navigation(u)
    /\ UNCHANGED <<url, inferVars, caller, observerVars, sessionVars, pc, ppa, cli, nEvents, nChanges, passes,
                   recoveryFailed>>

\* ------------------------------------------------------------------------
\* RecordingSession._handle_navigation_async, one step per await
\* ------------------------------------------------------------------------
\* await self._page.go_back(): raises, or goes one entry back (the event of
\* that navigation is handled by _on_navigation), or finds no entry to go to.
TaskGoBack(fails) ==
    /\ tasks.go_back > 0
    /\ IF fails \/ browser # "open"
       THEN /\ tasks' = [tasks EXCEPT !.go_back = @ - 1]
            /\ recoveryFailed' = TRUE
            /\ UNCHANGED envVars
       ELSE /\ recoveryFailed' = recoveryFailed
            /\ IF histPos > 1
               THEN /\ histPos' = histPos - 1
                    /\ history' = history
                    /\ NewDocument
                    /\ tasks' = [on_navigation(history[histPos - 1]) EXCEPT
                                    !.go_back = @ - 1,
                                    !.start_tracker = IF tracker /\ observer THEN @ + 1 ELSE @]
               ELSE /\ UNCHANGED envVars
                    /\ tasks' = [tasks EXCEPT
                                    !.go_back = @ - 1,
                                    !.start_tracker = IF tracker /\ observer THEN @ + 1 ELSE @]
    /\ UNCHANGED <<url, inferVars, caller, observerVars, sessionVars, pc, ppa, cli, nEvents, nChanges, nNavs, passes>>

\* await self._tracker.start()
TaskStartTracker(fails) ==
    /\ tasks.start_tracker > 0
    /\ IF fails \/ browser # "open"
       THEN /\ tasks' = [tasks EXCEPT !.start_tracker = @ - 1]
            /\ recoveryFailed' = TRUE
            /\ UNCHANGED <<winTracker, winActions, listeners>>
       ELSE /\ tasks' = [tasks EXCEPT !.start_tracker = @ - 1, !.start_observer = @ + 1]
            /\ recoveryFailed' = recoveryFailed
            /\ winTracker' = TRUE
            /\ winActions' = trackerStartActions
            /\ listeners' = trackerStartListeners
    /\ UNCHANGED <<url, inferVars, caller, history, histPos, winObserving, winMutations, winObservers,
                   observerVars, sessionVars, pc, ppa, cli, nEvents, nChanges, nNavs, passes>>

\* await self._observer.start()
TaskStartObserver(fails) ==
    /\ tasks.start_observer > 0
    /\ tasks' = [tasks EXCEPT !.start_observer = @ - 1]
    /\ IF fails \/ browser # "open"
       THEN /\ recoveryFailed' = TRUE
            /\ UNCHANGED <<winObserving, winMutations, winObservers, requestListeners>>
       ELSE /\ recoveryFailed' = recoveryFailed
            /\ winObserving' = TRUE
            /\ winMutations' = <<>>
            /\ winObservers' = winObservers + 1
            /\ requestListeners' = requestListeners + 1
    /\ UNCHANGED <<url, inferVars, caller, history, histPos, winTracker, winActions, listeners,
                   network_requests, seen_selectors, seen_api_patterns,
                   sessionVars, pc, ppa, cli, nEvents, nChanges, nNavs, passes>>

\* ------------------------------------------------------------------------
\* RecordingSession
\* ------------------------------------------------------------------------
\* __aenter__, up to the await that raises (failAt), or to its end ("none").
aenter(failAt) ==
    LET reached(step) ==
            \* the awaits in order; step is reached when no earlier one raised
            LET order == <<"start", "launch", "new_page", "goto", "tracker", "observer", "none">>
                idx(x) == CHOOSE i \in 1..7 : order[i] = x
            IN  idx(failAt) > idx(step)
    IN  /\ playwright' = IF reached("start") THEN "started" ELSE playwright
        /\ browser' = IF reached("launch") THEN "open" ELSE browser
        /\ page' = IF reached("new_page") THEN "page" ELSE page
        /\ history' = IF reached("goto") THEN <<AboutBlank, PageUrlOf(url)>> ELSE <<AboutBlank>>
        /\ histPos' = IF reached("goto") THEN 2 ELSE 1
        /\ tracker' = reached("goto")
        /\ observer' = reached("goto")
        /\ winTracker' = reached("tracker")
        /\ winActions' = <<>>
        /\ listeners' = IF reached("tracker") THEN <<NewListener>> ELSE <<>>
        /\ winObserving' = reached("observer")
        /\ winMutations' = <<>>
        /\ winObservers' = IF reached("observer") THEN 1 ELSE 0
        /\ requestListeners' = IF reached("observer") THEN 1 ELSE 0
        /\ network_requests' = <<>>
        /\ seen_selectors' = {}
        /\ seen_api_patterns' = {}
        /\ original_url' = IF reached("observer") THEN url ELSE original_url
        /\ navHandler' = reached("observer")
        /\ UNCHANGED recorded_actions

EnterFailures == {"start", "launch", "new_page", "goto", "tracker", "observer"}

\* async with RecordingSession(...) as session: the caller enters the session,
\* for the first time or again after it has left it.
Enter(failAt) ==
    /\ pc = "idle" /\ playwright \in {None, "stopped"}
    /\ aenter(failAt)
    /\ UNCHANGED <<url, inferVars, caller, tasks, pc, ppa, cli, nEvents, nChanges, nNavs, passes, recoveryFailed>>

\* The page property: raises RuntimeError when _page is None.
page_property == IF page = None THEN "RuntimeError" ELSE page

\* Mutant: the guard never fires.
NotInitialized_Never == FALSE

\* if not self._tracker or not self._observer
NotInitialized == ~tracker \/ ~observer

\* if not actions: return
EarlyReturn(actions) == actions = <<>>

\* Mutant: every action gets the batch.
changesFor_Every(i, all_changes) == all_changes

\* changes = all_changes if i == 0 else []   (i counts from 1 here)
changesFor(i, all_changes) == IF i = 1 THEN all_changes ELSE <<>>

\* Mutant: the value is not passed on.
RecordedAction_NoValue(action_data, changes) ==
    [action_type |-> action_data.type,
     selector |-> action_data.selector,
     changes |-> changes,
     value |-> None,
     uid |-> action_data.uid]

RecordedAction(action_data, changes) ==
    [action_type |-> action_data.type,
     selector |-> action_data.selector,
     changes |-> changes,
     value |-> IF action_data.hasValue THEN action_data.value ELSE None,
     uid |-> action_data.uid]

\* Mutants: the exception leaves run_record through its outer except.
afterPollError_Propagates == "rr_done"
afterFinalError_Propagates == "rr_done"

\* except Exception: pass   (cli.py, the periodic poll)
afterPollError == "rr_loop"
\* except Exception as e: logger.warning(...)   (cli.py, the final pass)
afterFinalError == "rr_read"

\* Where the main flow continues when process_pending_actions returns or raises.
Continue(ctx, raised) ==
    CASE ctx = "caller" -> "idle"
      [] ctx = "aexit"  -> IF raised THEN "idle" ELSE "aexit_close"
      [] ctx = "poll"   -> IF raised THEN afterPollError ELSE "rr_loop"
      [] ctx = "final"  -> IF raised THEN afterFinalError ELSE "rr_read"

NoCall == [ctx |-> "none", phase |-> "none", error |-> "none", actions |-> <<>>,
           base |-> 0, changes |-> <<>>, drained |-> FALSE,
           \* history of direct after_action() / before_action() calls
           n |-> 0, at |-> 0, prevAt |-> 0, prev |-> {}, afterReset |-> FALSE,
           quiet |-> FALSE, mutations |-> <<>>, requests |-> <<>>, since |-> {}]

\* process_pending_actions up to its first await and through it:
\* the guard, get_actions(), the early return.
ProcessBegin(ctx, fails) ==
    /\ passes' = passes + 1
    /\ IF NotInitialized
       THEN /\ ppa' = [NoCall EXCEPT !.ctx = ctx, !.phase = "uninit",
                                     !.base = Len(recorded_actions)]
            /\ pc' = Continue(ctx, FALSE)
       ELSE IF ~tracker
       THEN /\ ppa' = [NoCall EXCEPT !.ctx = ctx, !.phase = "raised",
                                     !.error = "AttributeError",
                                     !.base = Len(recorded_actions)]
            /\ pc' = Continue(ctx, TRUE)
       ELSE IF fails \/ browser # "open"
       THEN /\ ppa' = [NoCall EXCEPT !.ctx = ctx, !.phase = "raised", !.error = "Error",
                                     !.base = Len(recorded_actions)]
            /\ pc' = Continue(ctx, TRUE)
       ELSE LET actions == fetch_and_convert_actions
            IN  IF EarlyReturn(actions)
                THEN /\ ppa' = [NoCall EXCEPT !.ctx = ctx, !.phase = "empty",
                                              !.actions = actions,
                                              !.base = Len(recorded_actions)]
                     /\ pc' = Continue(ctx, FALSE)
                ELSE /\ ppa' = [NoCall EXCEPT !.ctx = ctx, !.phase = "waiting",
                                              !.actions = actions,
                                              !.base = Len(recorded_actions)]
                     /\ pc' = "ppa"
    /\ UNCHANGED <<url, inferVars, caller, envVars, observerVars, sessionVars, tasks,
                   nEvents, nChanges, nNavs, recoveryFailed>>

\* Mutant: the first action is recorded before the Collector is drained.
appended_before_drain_First(actions) ==
    IF actions = <<>> THEN <<>> ELSE <<RecordedAction(actions[1], <<>>)>>

\* What the call has appended when after_action() raises: the loop that
\* appends comes after both awaits, so nothing.
appended_before_drain(actions) == <<>>

\* The rest of process_pending_actions: after_action() (the settle timeout is
\* the time between the two steps), then one RecordedAction per action.
ProcessFinish(fails) ==
    /\ pc = "ppa"
    /\ IF fails \/ browser # "open"
       THEN /\ ppa' = [ppa EXCEPT !.phase = "raised", !.error = "Error"]
            /\ pc' = Continue(ppa.ctx, TRUE)
            /\ recorded_actions' = recorded_actions \o appended_before_drain(ppa.actions)
            /\ UNCHANGED <<seen_selectors, seen_api_patterns>>
       ELSE LET r == after_action
                all_changes == r.changes
                actions == ppa.actions
            IN  /\ seen_selectors' = r.seen_selectors
                /\ seen_api_patterns' = r.seen_api_patterns
                /\ recorded_actions' = recorded_actions \o
                      [i \in 1..Len(actions) |->
                          RecordedAction(actions[i], changesFor(i, all_changes))]
                /\ ppa' = [ppa EXCEPT !.phase = "returned", !.changes = all_changes,
                                      !.drained = TRUE]
                /\ pc' = Continue(ppa.ctx, FALSE)
    /\ UNCHANGED <<url, inferVars, caller, envVars, requestListeners, network_requests,
                   playwright, browser, page, tracker, observer, original_url, navHandler,
                   tasks, cli, nEvents, nChanges, nNavs, passes, recoveryFailed>>

\* A caller calls process_pending_actions().
CallProcess(fails) ==
    /\ pc = "idle" /\ passes < MaxPasses
    /\ ProcessBegin("caller", fails)
    /\ UNCHANGED cli

\* The caller leaves the session: __aexit__ starts with process_pending_actions().
Aexit(fails) ==
    /\ pc = "idle" /\ navHandler /\ browser = "open" /\ passes < MaxPasses
    /\ ProcessBegin("aexit", fails)
    /\ UNCHANGED cli

\* The rest of __aexit__: browser.close(), playwright.stop(); what raises
\* leaves __aexit__ at once.
AexitClose(failAt) ==
    /\ pc = "aexit_close"
    /\ pc' = "idle"
    /\ browser' = IF failAt = "close" THEN browser ELSE "closed"
    /\ playwright' = IF failAt = "none" THEN "stopped" ELSE playwright
    /\ UNCHANGED <<url, inferVars, caller, envVars, observerVars, page, tracker, observer, recorded_actions,
                   original_url, navHandler, tasks, ppa, cli,
                   nEvents, nChanges, nNavs, passes, recoveryFailed>>

\* ------------------------------------------------------------------------
\* A caller using the collaborators directly, inside an open session
\* ------------------------------------------------------------------------
SessionOpen == pc = "idle" /\ navHandler /\ browser = "open" /\ playwright = "started"

Range(f) == {f[i] : i \in DOMAIN f}

\* ChangeObserver.before_action()
ObsBeforeAction ==
    /\ SessionOpen /\ caller.calls < MaxCalls
    /\ caller' = [caller EXCEPT !.calls = @ + 1]
    /\ winObserving' = TRUE /\ winMutations' = <<>>
    /\ network_requests' = <<>>
    /\ seen_selectors' = {}
    /\ ppa' = [ppa EXCEPT !.ctx = "before", !.since = {}]
    /\ UNCHANGED <<url, inferVars, history, histPos, winTracker, winActions, listeners,
                   winObservers, requestListeners, seen_api_patterns, sessionVars,
                   tasks, pc, cli, nEvents, nChanges, nNavs, passes, recoveryFailed>>

\* ChangeObserver.after_action(); the history fields record what the call read
\* and what the calls before it had returned.
ObsAfterAction ==
    /\ SessionOpen /\ caller.calls < MaxCalls
    /\ caller' = [caller EXCEPT !.calls = @ + 1]
    /\ LET r == after_action
       IN  /\ seen_selectors' = r.seen_selectors
           /\ seen_api_patterns' = r.seen_api_patterns
           /\ ppa' = [NoCall EXCEPT
                        !.ctx = "observer", !.phase = "returned", !.changes = r.changes,
                        !.n = ppa.n + 1, !.at = nChanges, !.prevAt = ppa.at,
                        !.prev = ppa.prev \cup Range(ppa.changes),
                        !.afterReset = (ppa.ctx = "before"),
                        !.quiet = (ppa.n >= 1 /\ ppa.at = nChanges),
                        !.mutations = IF winObserving THEN winMutations ELSE <<>>,
                        !.requests = network_requests,
                        !.since = ppa.since \cup Range(r.changes)]
    /\ UNCHANGED <<url, inferVars, envVars, requestListeners, network_requests, sessionVars,
                   tasks, pc, cli, nEvents, nChanges, nNavs, passes, recoveryFailed>>

\* ActionTracker.clear()
TrackerClear ==
    /\ SessionOpen /\ caller.clears < MaxClears
    /\ caller' = [caller EXCEPT !.events = <<>>, !.clears = @ + 1]
    /\ winActions' = IF winTracker THEN <<>> ELSE winActions
    /\ UNCHANGED <<url, inferVars, history, histPos, winTracker, listeners, winObserving,
                   winMutations, winObservers, observerVars, sessionVars, tasks, pc, ppa, cli,
                   nEvents, nChanges, nNavs, passes, recoveryFailed>>

\* No user event, no direct call yet.
NoCaller == [events |-> <<>>, clears |-> 0, calls |-> 0]

\* infer_validation_rule has not returned.
NoRule == [type |-> "none", description |-> <<>>, confidence |-> "none"]

\* run_record before its first statement.
NoCli == [headless |-> FALSE, stop_event |-> FALSE, sigint |-> "default",
          actions |-> "unset", closeTried |-> FALSE, stopTried |-> FALSE,
          teardownRaised |-> FALSE, openRaised |-> FALSE, entered |-> FALSE,
          written |-> FALSE, output |-> <<>>, exit_code |-> None, finals |-> 0]

\* No page is being analysed.
NoSite == [url |-> <<>>, elements |-> <<>>, fault |-> "none"]

\* analyze_page has not been called: no PageLoader, no result, nothing printed.
NoResult == [url |-> <<>>, errors |-> <<>>, interactions |-> <<>>]
NoAnalysis ==
    [loader |-> [playwright |-> None, browser |-> None, page |-> None],
     result |-> NoResult, raised |-> FALSE, stdout |-> NoResult, exit_code |-> None]

InitCommon ==
    /\ url \in GivenUrls
    /\ history = <<AboutBlank>> /\ histPos = 1
    /\ winTracker = FALSE /\ winActions = <<>> /\ listeners = <<>>
    /\ winObserving = FALSE /\ winMutations = <<>> /\ winObservers = 0
    /\ requestListeners = 0 /\ network_requests = <<>>
    /\ seen_selectors = {} /\ seen_api_patterns = {}
    /\ playwright = None /\ browser = None /\ page = None
    /\ tracker = FALSE /\ observer = FALSE
    /\ recorded_actions = <<>> /\ original_url = None /\ navHandler = FALSE
    /\ tasks = [go_back |-> 0, start_tracker |-> 0, start_observer |-> 0]
    /\ ppa = NoCall
    /\ nEvents = 0 /\ nChanges = 0 /\ nNavs = 0 /\ passes = 0
    /\ recoveryFailed = FALSE
    /\ caller = NoCaller
    /\ rule = NoRule
    /\ analysis = NoAnalysis

\* A caller holding a RecordingSession object it has just constructed.
Init == InitCommon /\ pc = "idle" /\ cli = NoCli /\ code = <<>> /\ site = NoSite

\* ------------------------------------------------------------------------
\* test_generator.generate_test: the lines of the generated test.  A line is
\* its statement and the operands spliced into it; the strings of the model
\* hold no quote, backslash or newline, which is all the escaping rewrites.
\* ------------------------------------------------------------------------
NoTarget == [by |-> "", tag |-> "", v |-> <<>>]
Line(stmt, target, a, b) == [stmt |-> stmt, target |-> target, a |-> a, b |-> b]
Blank == Line("", NoTarget, "", "")

generate_assertion(change) ==
    CASE change.kind = "dom" /\ change.what = "added" ->
            <<Line("expect.toBeVisible", change.target, "", "")>>
      [] change.kind = "dom" /\ change.what = "removed" ->
            <<Line("expect.toBeHidden", change.target, "", "")>>
      [] change.kind = "dom" /\ change.what = "text_changed" ->
            <<Line("expect.toHaveText", change.target, change.value, "")>>
      [] change.kind = "css" ->
            <<Line("expect.toHaveCSS", change.target, change.what, change.value)>>
      [] change.kind = "network" ->
            <<Line("page.waitForRequest", change.target, change.what, "")>>
      [] OTHER -> <<>>

RECURSIVE generate_assertions(_)
generate_assertions(changes) ==
    IF changes = <<>> THEN <<>>
    ELSE generate_assertion(Head(changes)) \o generate_assertions(Tail(changes))

generate_action(action) ==
    LET value == IF action.value = None THEN "" ELSE action.value
        stmt == CASE action.action_type = "click" ->
                        Line("page.click", action.selector, "", "")
                  [] action.action_type = "type" ->
                        Line("page.fill", action.selector, value, "")
                  [] action.action_type = "press" ->
                        Line("page.press", action.selector, value, "")
                  [] OTHER ->
                        Line("// WARNING: Unknown action type", NoTarget, action.action_type, "")
    IN  IF action.changes = <<>>
        THEN <<stmt, Line("// No observable changes detected", NoTarget, "", "")>>
        ELSE <<stmt>> \o generate_assertions(action.changes)

RECURSIVE generate_actions(_)
generate_actions(actions) ==
    IF actions = <<>> THEN <<>>
    ELSE generate_action(Head(actions)) \o <<Blank>> \o generate_actions(Tail(actions))

Skeleton(u) ==
    << Line("import { test, expect }", NoTarget, "", ""),
       Blank,
       Line("test('recorded interaction test'", NoTarget, "", ""),
       Line("page.goto", NoTarget, u, ""),
       Blank >>

generate_test(u, actions) ==
    Skeleton(u) \o generate_actions(actions) \o <<Line("});", NoTarget, "", ""), Blank>>

\* ------------------------------------------------------------------------
\* cli.run_record
\* ------------------------------------------------------------------------
\* session = RecordingSession(...); await session.__aenter__(); what raises
\* reaches the outer except (return 1).  Headed, the SIGINT handler is set.
RR_Enter(failAt) ==
    /\ pc = "rr_start"
    /\ aenter(failAt)
    /\ IF failAt # "none"
       THEN /\ pc' = "rr_done"
            /\ cli' = [cli EXCEPT !.exit_code = "1"]
       ELSE IF cli.headless
       THEN /\ pc' = "rr_final"
            /\ cli' = [cli EXCEPT !.entered = TRUE]
       ELSE /\ pc' = "rr_loop"
            /\ cli' = [cli EXCEPT !.entered = TRUE, !.sigint = "handler"]
    /\ UNCHANGED <<url, inferVars, caller, tasks, ppa, nEvents, nChanges, nNavs, passes, recoveryFailed>>

\* handle_sigint: stop_event.set()
Interrupt ==
    /\ cli.sigint = "handler" /\ ~cli.stop_event
    /\ cli' = [cli EXCEPT !.stop_event = TRUE]
    /\ UNCHANGED <<url, inferVars, caller, envVars, observerVars, sessionVars, tasks, pc, ppa,
                   nEvents, nChanges, nNavs, passes, recoveryFailed>>

\* Mutant: the loop does not look at the stop event.
LoopContinues_Always == TRUE

\* while not stop_event.is_set()
LoopContinues == ~cli.stop_event

\* wait_for(stop_event.wait(), timeout=0.1) times out: a periodic poll.
RR_Poll(fails) ==
    /\ pc = "rr_loop" /\ LoopContinues /\ passes < MaxPasses
    /\ ProcessBegin("poll", fails)
    /\ UNCHANGED cli

\* The loop ends; finally: signal.signal(SIGINT, SIG_IGN)
RR_LoopExit ==
    /\ pc = "rr_loop" /\ ~LoopContinues
    /\ pc' = "rr_final"
    /\ cli' = [cli EXCEPT !.sigint = "ignore"]
    /\ UNCHANGED <<url, inferVars, caller, envVars, observerVars, sessionVars, tasks, ppa,
                   nEvents, nChanges, nNavs, passes, recoveryFailed>>

\* The final process_pending_actions() call.
RR_Final(fails) ==
    /\ pc = "rr_final"
    /\ ProcessBegin("final", fails)
    /\ cli' = [cli EXCEPT !.finals = @ + 1]

\* actions = session.get_recorded_actions()
RR_Read ==
    /\ pc = "rr_read"
    /\ pc' = "rr_close"
    /\ cli' = [cli EXCEPT !.actions = "read"]
    /\ UNCHANGED <<url, inferVars, caller, envVars, observerVars, sessionVars, tasks, ppa,
                   nEvents, nChanges, nNavs, passes, recoveryFailed>>

\* session._browser.close() and session._playwright.stop(), each in its own
\* try / except Exception: pass.
RR_Close(closeFails, stopFails) ==
    /\ pc = "rr_close"
    /\ pc' = "rr_write"
    /\ browser' = IF closeFails THEN browser ELSE "closed"
    /\ playwright' = IF stopFails THEN playwright ELSE "stopped"
    /\ cli' = [cli EXCEPT !.closeTried = TRUE, !.stopTried = TRUE,
                          !.teardownRaised = closeFails \/ stopFails]
    /\ UNCHANGED <<url, inferVars, caller, envVars, observerVars, page, tracker, observer, recorded_actions,
                   original_url, navHandler, tasks, ppa,
                   nEvents, nChanges, nNavs, passes, recoveryFailed>>

\* test_content = generate_test(url, actions); open(output, "w").write(...);
\* return 0.  open() raising reaches the outer except (return 1).
RR_Write(openFails) ==
    /\ pc = "rr_write"
    /\ pc' = "rr_done"
    /\ cli' = IF openFails
              THEN [cli EXCEPT !.openRaised = TRUE, !.exit_code = "1"]
              ELSE [cli EXCEPT !.written = TRUE,
                               !.output = generate_test(url, recorded_actions),
                               !.exit_code = "0"]
    /\ UNCHANGED <<url, inferVars, caller, envVars, observerVars, sessionVars, tasks, ppa,
                   nEvents, nChanges, nNavs, passes, recoveryFailed>>

UserEvents ==
    \/ \E e \in Elements : UserClick(e, 1)
    \/ \E e \in Elements, v \in Values : UserInput(e, v, 1)

PageChanges ==
    \/ \E m \in PageMutations : PageMutation(m)
    \/ \E r \in PageRequests : PageRequest(r)

Recovery ==
    \/ \E f \in BOOLEAN : TaskGoBack(f)
    \/ \E f \in BOOLEAN : TaskStartTracker(f)
    \/ \E f \in BOOLEAN : TaskStartObserver(f)

\* A caller using the session on a page that stays where it is.
Next ==
    \/ \E f \in EnterFailures \cup {"none"} : Enter(f)
    \/ \E f \in BOOLEAN : CallProcess(f)
    \/ \E f \in BOOLEAN : ProcessFinish(f)
    \/ \E f \in BOOLEAN : Aexit(f)
    \/ \E f \in {"none", "close", "stop"} : AexitClose(f)
    \/ UserEvents
    \/ PageChanges

Spec == Init /\ [][Next]_vars

\* A caller using the session on a page that navigates.
NextNav ==
    \/ Enter("none")
    \/ \E f \in BOOLEAN : CallProcess(f)
    \/ \E f \in BOOLEAN : ProcessFinish(f)
    \/ \E e \in Elements : UserClick(e, 1)
    \/ \E u \in OtherUrls : Navigate(u)
    \/ Recovery

SpecNav == Init /\ [][NextNav]_vars

\* A caller using the ChangeObserver of an open session directly.
NextObserver ==
    \/ Enter("none")
    \/ ObsBeforeAction
    \/ ObsAfterAction
    \/ PageChanges

SpecObserver == Init /\ [][NextObserver]_vars

\* A caller using the ActionTracker of an open session directly.
NextTracker ==
    \/ Enter("none")
    \/ \E e \in TrackerElements, ts \in Timestamps : UserClick(e, ts)
    \/ \E e \in TrackerElements, v \in Values, ts \in Timestamps : UserInput(e, v, ts)
    \/ TrackerClear

SpecTracker == Init /\ [][NextTracker]_vars

\* The record command.
InitRecord ==
    /\ InitCommon /\ pc = "rr_start" /\ code = <<>> /\ site = NoSite
    /\ \E h \in BOOLEAN : cli = [NoCli EXCEPT !.headless = h]

NextRecord ==
    \/ \E f \in EnterFailures \cup {"none"} : RR_Enter(f)
    \/ Interrupt
    \/ \E f \in BOOLEAN : RR_Poll(f)
    \/ RR_LoopExit
    \/ \E f \in BOOLEAN : RR_Final(f)
    \/ \E f \in BOOLEAN : ProcessFinish(f)
    \/ RR_Read
    \/ \E c, t \in BOOLEAN : RR_Close(c, t)
    \/ \E f \in BOOLEAN : RR_Write(f)
    \/ UserClick("toggle", 1)
    \/ nNavs < MaxRecordNavs /\ Navigate("http://site/b")
    \/ Recovery

SpecRecord == InitRecord /\ [][NextRecord]_vars

\* ------------------------------------------------------------------------
\* rule_inferrer.infer_validation_rule
\*
\* A snippet is a sequence of lexemes, its text their concatenation.  The
\* lexemes of the model hold no backslash, quote, '^', '$', '/', '-', '!',
\* '0', "==" or newline, and no two of them join into a word of a pattern, so
\* a sub-pattern matches the text exactly when its operator below matches
\* the lexemes; the sub-patterns that need one of those characters match no
\* snippet of the model.
\* ------------------------------------------------------------------------
Lexemes == {"@", "Email", ".length", "<", "<=", ">", ">=", "8", "minLength", "maxlength",
            " ", "https?:", "phone", "isNaN(", "required", ".test("}

Snippets == UNION {[1..n -> Lexemes] : n \in 0..MaxSnippet}

Whitespace == {" "}
Digits == {"8"}
\* the lexemes that hold a '.'
Dotted == {".length", ".test("}

\* re.IGNORECASE: letters compare by their lower case
Lower(t) ==
    CASE t = "Email" -> "email"
      [] t = "minLength" -> "minlength"
      [] t = "isNaN(" -> "isnan("
      [] OTHER -> t

\* not code or not code.strip()
IsBlank(c) == \A i \in 1..Len(c) : c[i] \in Whitespace

\* A match object: groups is the number of groups of the pattern, group1 the
\* text of the first.
NoMatch == [found |-> FALSE, groups |-> 0, group1 |-> <<>>]
Match(groups, group1) == [found |-> TRUE, groups |-> groups, group1 |-> group1]

\* a plain word, anywhere
SearchWord(c, w) ==
    IF \E i \in 1..Len(c) : Lower(c[i]) = w THEN Match(0, <<>>) ELSE NoMatch

\* \s*: the first position from i on that holds no whitespace
RECURSIVE SkipSpace(_, _)
SkipSpace(c, i) ==
    IF i <= Len(c) /\ c[i] \in Whitespace THEN SkipSpace(c, i + 1) ELSE i

\* (\d+): the longest run of digits from i on
RECURSIVE DigitRun(_, _)
DigitRun(c, i) ==
    IF i <= Len(c) /\ c[i] \in Digits THEN <<c[i]>> \o DigitRun(c, i + 1) ELSE <<>>

\* \.length\s*OP\s*(\d+) matches at position i
LengthCheckAt(c, i, op) ==
    /\ c[i] = ".length"
    /\ LET j == SkipSpace(c, i + 1)
       IN  /\ j <= Len(c) /\ c[j] = op
           /\ DigitRun(c, SkipSpace(c, j + 1)) # <<>>

\* re.search of \.length\s*OP\s*(\d+): the leftmost match
SearchLengthCheck(c, op) ==
    IF \E i \in 1..Len(c) : LengthCheckAt(c, i, op)
    THEN LET i == CHOOSE x \in 1..Len(c) :
                     /\ LengthCheckAt(c, x, op)
                     /\ \A y \in 1..(x - 1) : ~LengthCheckAt(c, y, op)
             j == SkipSpace(c, i + 1)
         IN  Match(1, DigitRun(c, SkipSpace(c, j + 1)))
    ELSE NoMatch

\* re.search(pattern, code, re.IGNORECASE)
search(pattern, c) ==
    CASE pattern = "@.*\\." ->
            IF \E i, j \in 1..Len(c) : i < j /\ c[i] = "@" /\ c[j] \in Dotted
            THEN Match(0, <<>>) ELSE NoMatch
      [] pattern = "email" -> SearchWord(c, "email")
      [] pattern = "https\\?:" -> SearchWord(c, "https?:")
      [] pattern = "phone" -> SearchWord(c, "phone")
      [] pattern = "isNaN\\s*\\(" -> SearchWord(c, "isnan(")
      [] pattern = "\\.length\\s*<\\s*(\\d+)" -> SearchLengthCheck(c, "<")
      [] pattern = "\\.length\\s*>=\\s*(\\d+)" -> SearchLengthCheck(c, ">=")
      [] pattern = "minlength" -> SearchWord(c, "minlength")
      [] pattern = "\\.length\\s*>\\s*(\\d+)" -> SearchLengthCheck(c, ">")
      [] pattern = "\\.length\\s*<=\\s*(\\d+)" -> SearchLengthCheck(c, "<=")
      [] pattern = "maxlength" -> SearchWord(c, "maxlength")
      [] pattern = "required" -> SearchWord(c, "required")
      [] pattern = "\\.test\\s*\\(" -> SearchWord(c, ".test(")
      [] OTHER -> NoMatch

\* The entries of PATTERNS; an absent key is the empty sequence.
PatternDef(type, patterns, description, description_template, confidence) ==
    [type |-> type, patterns |-> patterns, description |-> description,
     description_template |-> description_template, confidence |-> confidence]

EmailPatterns ==
    PatternDef("email", <<"@.*\\.", "email", "\\\\.+@\\\\.+">>,
               <<"Must be a valid email address">>, <<>>, "high")
UrlPatterns ==
    PatternDef("url", <<"https\\?:">>, <<"Must be a valid URL">>, <<>>, "high")
PhonePatterns ==
    PatternDef("phone", <<"\\\\d\\{3\\}[-.]\\\\d\\{3\\}[-.]\\\\d\\{4\\}",
                          "\\d{3}[-]\\d{3}[-]\\d{4}", "phone">>,
               <<"Must be a valid phone number">>, <<>>, "medium")
NumericPatterns ==
    PatternDef("numeric", <<"isNaN\\s*\\(", "Number\\s*\\(", "parseInt\\s*\\(",
                            "parseFloat\\s*\\(", "\\^\\\\d\\+\\$">>,
               <<"Must be a number">>, <<>>, "high")
MinLengthPatterns ==
    PatternDef("min_length", <<"\\.length\\s*<\\s*(\\d+)", "\\.length\\s*>=\\s*(\\d+)",
                               "minlength">>,
               <<>>, <<"Must be at least ", "{0}", " characters">>, "high")
MaxLengthPatterns ==
    PatternDef("max_length", <<"\\.length\\s*>\\s*(\\d+)", "\\.length\\s*<=\\s*(\\d+)",
                               "maxlength">>,
               <<>>, <<"Must be at most ", "{0}", " characters">>, "high")
RequiredPatterns ==
    PatternDef("required", <<"===?\\s*['\"][\\s]*['\"]", "===?\\s*null", "===?\\s*undefined",
                             "\\.length\\s*===?\\s*0", "!value", "required">>,
               <<"Field is required">>, <<>>, "high")
CustomPatterns ==
    PatternDef("pattern", <<"/\\^.*\\$/", "\\.test\\s*\\(", "\\.match\\s*\\(", "RegExp\\s*\\(">>,
               <<"Must match a specific pattern">>, <<>>, "low")

\* Mutant: the length categories come first.
PATTERNS_LengthFirst ==
    <<MinLengthPatterns, MaxLengthPatterns, EmailPatterns, UrlPatterns, PhonePatterns,
      NumericPatterns, RequiredPatterns, CustomPatterns>>

PATTERNS ==
    <<EmailPatterns, UrlPatterns, PhonePatterns, NumericPatterns, MinLengthPatterns,
      MaxLengthPatterns, RequiredPatterns, CustomPatterns>>

\* Mutant: the parameter is not spliced in.
format_NoParam(template, param) == template

\* description_template.format(param)
RECURSIVE format(_, _)
format(template, param) ==
    IF template = <<>> THEN <<>>
    ELSE (IF Head(template) = "{0}" THEN param ELSE <<Head(template)>>)
             \o format(Tail(template), param)

\* Mutant: no exception is caught.
Caught_None == {}

\* except (IndexError, AttributeError)
Caught == {"IndexError", "AttributeError"}

\* pattern_def.get("description", f"Validation rule: {pattern_def['type']}")
get_description(pattern_def) ==
    IF pattern_def.description # <<>> THEN pattern_def.description
    ELSE <<"Validation rule: ", pattern_def.type>>

\* The description built for a match; match.group(1) raises IndexError when
\* the pattern has no group.  "raise" when the error is not caught.
build_description(pattern_def, m) ==
    IF pattern_def.description_template # <<>>
    THEN IF m.groups >= 1 THEN format(pattern_def.description_template, m.group1)
         ELSE IF "IndexError" \in Caught THEN get_description(pattern_def)
         ELSE <<"raise">>
    ELSE get_description(pattern_def)

\* Mutant: the unknown rule carries a confidence.
UnknownRule_LowConfidence ==
    [type |-> "unknown", description |-> <<"Could not determine validation rule">>,
     confidence |-> "low"]

UnknownRule ==
    [type |-> "unknown", description |-> <<"Could not determine validation rule">>,
     confidence |-> None]

\* An exception leaves infer_validation_rule.
Raised(error) == [type |-> "raise", description |-> <<error>>, confidence |-> None]

\* for pattern_def in PATTERNS: for pattern in pattern_def["patterns"]: ...
RECURSIVE scan(_, _, _)
scan(c, d, k) ==
    IF d > Len(PATTERNS) THEN UnknownRule
    ELSE IF k > Len(PATTERNS[d].patterns) THEN scan(c, d + 1, 1)
    ELSE LET pattern_def == PATTERNS[d]
             m == search(pattern_def.patterns[k], c)
             description == build_description(pattern_def, m)
         IN  IF ~m.found THEN scan(c, d, k + 1)
             ELSE IF description = <<"raise">> THEN Raised("IndexError")
             ELSE [type |-> pattern_def.type, description |-> description,
                   confidence |-> pattern_def.confidence]

infer_validation_rule(c) == IF IsBlank(c) THEN UnknownRule ELSE scan(c, 1, 1)

\* A caller calls infer_validation_rule(code).
Infer ==
    /\ pc = "infer"
    /\ pc' = "inferred"
    /\ rule' = infer_validation_rule(code)
    /\ UNCHANGED <<url, code, site, analysis, caller, envVars, observerVars, sessionVars,
                   tasks, ppa, cli, nEvents, nChanges, nNavs, passes, recoveryFailed>>

InitInfer == InitCommon /\ pc = "infer" /\ cli = NoCli /\ code \in Snippets /\ site = NoSite

NextInfer == Infer

SpecInfer == InitInfer /\ [][NextInfer]_vars

\* ========================================================================
\* The analysis path: PageLoader, extract_listeners, analyze_page, the
\* serialisation of the result, run_analyze.  A string that is serialised is a
\* sequence of pieces in which a quote or a backslash is a piece of its own.
\* ========================================================================
Quote == "\""
Backslash == "\\"

\* An optional value: None, or the value.
Nothing == <<>>
Just(x) == <<x>>

AnalyzeUrls ==
    { <<"http://site/">>, <<"http://site/?q=", Quote, "a", Quote>>,
      <<"not-a-valid-url">>, <<"ftp://site/">>, <<"http://[">> }

\* urllib.parse.urlparse(url).scheme; an unclosed bracket in the host makes
\* urlparse raise ValueError.
urlparse(u) ==
    CASE u[1] = "http://[" -> "ValueError"
      [] u[1] \in {"http://site/", "http://site/?q="} -> "http"
      [] u[1] = "ftp://site/" -> "ftp"
      [] OTHER -> ""

\* An input element of the page: the attribute its selector is built from,
\* the script listener attached to it, and the call that fails for it.
PageElements ==
    [attr : {"none", "id", "name"}, listener : {"none", "email", "opaque"},
     fails : {"none", "evaluate", "cdp"}]

Pages == UNION {[1..n -> PageElements] : n \in 0..MaxElements}

\* What the environment makes fail: launching the browser, opening a page,
\* the navigation, the navigation and the close() after it, the element query.
Faults == {"none", "launch", "new_page", "goto", "goto_close", "query"}

Sites == [url : AnalyzeUrls, elements : Pages, fault : Faults]

\* info["id"], info["name"] of an element
InfoId(el) == IF el.attr = "id" THEN Just(<<"a">>) ELSE Nothing
InfoName(el) == IF el.attr = "name" THEN Just(<<"n">>) ELSE Nothing

\* selector = tag, + "#id" or + '[name="..."]'
build_selector(el) ==
    IF InfoId(el) # Nothing THEN <<"input", "#">> \o InfoId(el)[1]
    ELSE IF InfoName(el) # Nothing
         THEN <<"input", "[name=", Quote>> \o InfoName(el)[1] \o <<Quote, "]">>
    ELSE <<"input">>

\* document.querySelector(selector): the position of the first element of the
\* document that the selector matches.
querySelector(elements, selector) ==
    CHOOSE j \in 1..Len(elements) :
        /\ selector = <<"input">> \/ selector = build_selector(elements[j])
        /\ \A h \in 1..(j - 1) :
              ~(selector = <<"input">> \/ selector = build_selector(elements[h]))

\* The handler code extract_listeners assembles for a listener: the function
\* found in the script source, or the placeholder when there is none.
ListenerCode(listener) ==
    IF listener = "email" THEN <<"Email", ".test(">> ELSE <<"[code not extractable]">>

\* el is the position of the element the entry was made for, src that of the
\* element whose listeners were read (history fields).
ListenerInfo(elements, i, j) ==
    [selector |-> build_selector(elements[i]), tag |-> <<"input">>,
     events |-> <<"blur">>, code |-> ListenerCode(elements[j].listener),
     id |-> InfoId(elements[i]), name |-> InfoName(elements[i]),
     el |-> i, src |-> j]

\* The element loop of extract_listeners, from element i on.
\* One pass of the element loop: the results after element i.
extract_element(elements, i, results) ==
    IF elements[i].fails = "evaluate" THEN results
    ELSE IF elements[i].fails = "cdp" THEN results
    ELSE IF elements[querySelector(elements, build_selector(elements[i]))].listener = "none"
         THEN results
    ELSE Append(results,
                ListenerInfo(elements, i, querySelector(elements, build_selector(elements[i]))))

\* The element loop of extract_listeners, from element i on.
RECURSIVE extract_from(_, _, _)
extract_from(elements, i, results) ==
    IF i > Len(elements) THEN results
    ELSE extract_from(elements, i + 1, extract_element(elements, i, results))

\* extract_listeners(page): the exception it raises, the list it returns
extract_listeners(s) ==
    IF s.fault = "query" THEN [raised |-> "Error", phase |-> "", results |-> <<>>]
    ELSE [raised |-> "none", phase |-> "", results |-> extract_from(s.elements, 1, <<>>)]

\* PageLoader.__aenter__: the loader after it, the exception it raises
loader_aenter(s) ==
    IF s.fault = "launch"
    THEN [loader |-> [playwright |-> "started", browser |-> None, page |-> None],
          raised |-> "Error"]
    ELSE [loader |-> [playwright |-> "started", browser |-> "open", page |-> None],
          raised |-> "none"]

\* PageLoader.load(url): the page after it, the exception it raises and its phase
load(s) ==
    IF urlparse(s.url) = "ValueError"
    THEN [page |-> None, raised |-> "ValueError", phase |-> ""]
    ELSE IF urlparse(s.url) \notin {"http", "https", "file"}
    THEN [page |-> None, raised |-> "PageLoadError", phase |-> "loading"]
    ELSE IF s.fault = "new_page"
    THEN [page |-> None, raised |-> "Error", phase |-> ""]
    ELSE IF s.fault = "goto"
    THEN [page |-> "closed", raised |-> "PageLoadError", phase |-> "loading"]
    ELSE IF s.fault = "goto_close"
    THEN [page |-> "open", raised |-> "Error", phase |-> ""]
    ELSE [page |-> "open", raised |-> "none", phase |-> ""]

\* PageLoader.__aexit__: the loader after the with block
loader_aexit(loader) == loader

AnalysisError(element, error, phase) ==
    [element |-> element, error |-> error, phase |-> phase]

\* The Interaction made of a ListenerInfo and the rule inferred from its code.
Interaction(listener_info, r) ==
    [element |-> [selector |-> listener_info.selector, tag |-> listener_info.tag,
                  id |-> listener_info.id, name |-> listener_info.name],
     triggers |-> listener_info.events,
     validation |->
        [type |-> r.type, raw_code |-> listener_info.code,
         rule_description |-> IF r.type # "unknown" THEN Just(r.description) ELSE Nothing,
         confidence |-> IF r.confidence = None THEN Nothing ELSE Just(r.confidence)],
     el |-> listener_info.el, src |-> listener_info.src]

\* The loop of analyze_page over the extracted listeners:
\* [errors, interactions]
RECURSIVE process_listeners(_, _, _)
process_listeners(ls, errors, interactions) ==
    IF ls = <<>> THEN [errors |-> errors, interactions |-> interactions]
    ELSE LET listener_info == Head(ls)
             r == infer_validation_rule(listener_info.code)
         IN  IF r.type = "raise"
             THEN process_listeners(Tail(ls),
                     Append(errors, AnalysisError(Just(listener_info.selector),
                                                  r.description[1], "extraction")),
                     interactions)
             ELSE process_listeners(Tail(ls), errors,
                     Append(interactions, Interaction(listener_info, r)))

\* The exceptions of the model; each is an Exception.
Exceptions == {"PageLoadError", "ValueError", "Error"}

\* The except clauses of analyze_page: the errors after an exception left the
\* with block.
except_clauses(raised, phase) ==
    IF raised = "PageLoadError" THEN <<AnalysisError(Nothing, raised, phase)>>
    ELSE <<AnalysisError(Nothing, raised, "discovery")>>

\* What leaves the with block: an exception and its phase, or the errors and
\* interactions of the listener loop.
Outcome(loader, raised, phase, done) ==
    [loader |-> loader, raised |-> raised, phase |-> phase,
     errors |-> done.errors, interactions |-> done.interactions]

NothingDone == [errors |-> <<>>, interactions |-> <<>>]

\* The body of the with block once the page is loaded.
inspect_page(s, loader) ==
    IF s.fault = "query" THEN Outcome(loader, extract_listeners(s).raised, "", NothingDone)
    ELSE Outcome(loader_aexit(loader), "none", "",
                 process_listeners(extract_listeners(s).results, <<>>, <<>>))

\* async with PageLoader() as loader: page = await loader.load(url); ...
with_block(s, entered, loaded) ==
    IF entered.raised # "none"
    THEN Outcome(entered.loader, entered.raised, "", NothingDone)
    ELSE IF loaded.raised # "none"
    THEN Outcome([entered.loader EXCEPT !.page = loaded.page],
                 loaded.raised, loaded.phase, NothingDone)
    ELSE inspect_page(s, [entered.loader EXCEPT !.page = loaded.page])

\* The except clauses and the return of analyze_page.
return_result(s, body) ==
    [loader |-> body.loader,
     raised |-> body.raised \notin Exceptions \cup {"none"},
     result |-> [url |-> s.url,
                 errors |-> IF body.raised = "none" THEN body.errors
                            ELSE body.errors \o except_clauses(body.raised, body.phase),
                 interactions |-> body.interactions]]

\* analyze_page(url): the loader it leaves behind and the result it returns
analyze_page(s) == return_result(s, with_block(s, loader_aenter(s), load(s)))

\* ------------------------------------------------------------------------
\* models.AnalysisResult.to_json, and json.loads of what it wrote
\* ------------------------------------------------------------------------
\* json.dumps of the characters of a string: a quote and a backslash are
\* written with a backslash before them.
RECURSIVE encode_string(_)
encode_string(text) ==
    IF text = <<>> THEN <<>>
    ELSE IF Head(text) \in {Quote, Backslash}
         THEN <<Backslash, Head(text)>> \o encode_string(Tail(text))
    ELSE <<Head(text)>> \o encode_string(Tail(text))

\* The JSON token of a string, and of None.
dumps_string(text) == <<Quote>> \o encode_string(text) \o <<Quote>>
dumps_null == <<"null">>
dumps_optional(v) == IF v = Nothing THEN dumps_null ELSE dumps_string(v[1])

\* Mutant: the dict comprehension keeps every field of the validation.
validation_items_All(validation) ==
    { <<"type", dumps_string(<<validation.type>>)>>,
      <<"raw_code", dumps_string(validation.raw_code)>>,
      <<"rule_description", dumps_optional(validation.rule_description)>>,
      <<"confidence", IF validation.confidence = Nothing THEN dumps_null
                      ELSE dumps_string(<<validation.confidence[1]>>)>> }

\* {k: v for k, v in asdict(validation).items() if v is not None}
validation_items(validation) ==
    { <<"type", dumps_string(<<validation.type>>)>>,
      <<"raw_code", dumps_string(validation.raw_code)>> }
    \cup (IF validation.rule_description = Nothing THEN {}
          ELSE {<<"rule_description", dumps_string(validation.rule_description[1])>>})
    \cup (IF validation.confidence = Nothing THEN {}
          ELSE {<<"confidence", dumps_string(<<validation.confidence[1]>>)>>})

\* _interaction_to_dict, written as JSON: the element with all its fields,
\* the triggers, the validation without its None fields.
interaction_to_dict(interaction) ==
    [element |-> { <<"selector", dumps_string(interaction.element.selector)>>,
                   <<"tag", dumps_string(interaction.element.tag)>>,
                   <<"id", dumps_optional(interaction.element.id)>>,
                   <<"name", dumps_optional(interaction.element.name)>> },
     triggers |-> interaction.triggers,
     validation |-> validation_items(interaction.validation)]

\* to_json(): the document printed
to_json(result) ==
    [url |-> dumps_string(result.url),
     errors |-> [i \in 1..Len(result.errors) |->
                    { <<"element", dumps_optional(result.errors[i].element)>>,
                      <<"error", dumps_string(<<result.errors[i].error>>)>>,
                      <<"phase", dumps_string(<<result.errors[i].phase>>)>> }],
     interactions |-> [i \in 1..Len(result.interactions) |->
                          interaction_to_dict(result.interactions[i])]]

\* json.loads scanning a string from piece i on, up to the closing quote.
RECURSIVE scanstring(_, _)
scanstring(token, i) ==
    IF i > Len(token) THEN <<>>
    ELSE IF token[i] = Quote THEN <<>>
    ELSE IF token[i] = Backslash /\ i < Len(token)
         THEN <<token[i + 1]>> \o scanstring(token, i + 2)
    ELSE <<token[i]>> \o scanstring(token, i + 1)

\* json.loads of a token: None for null, the string otherwise
loads(token) == IF token = dumps_null THEN Nothing ELSE Just(scanstring(token, 2))

\* The value of key k in a parsed object; Nothing if the key is absent.
Keys(object) == {kv[1] : kv \in object}
Get(object, k) == loads((CHOOSE kv \in object : kv[1] = k)[2])

\* ------------------------------------------------------------------------
\* cli.run_analyze
\* ------------------------------------------------------------------------
\* run_analyze once analyze_page has returned r.
Returned(a, r) == [a EXCEPT !.loader = r.loader, !.result = r.result, !.raised = r.raised]

\* result = await analyze_page(url)
AnalyzePage ==
    /\ pc = "analyze"
    /\ pc' = "analysed"
    /\ analysis' = Returned(analysis, analyze_page(site))
    /\ UNCHANGED <<url, code, rule, site, caller, envVars, observerVars, sessionVars,
                   tasks, ppa, cli, nEvents, nChanges, nNavs, passes, recoveryFailed>>

\* print(result.to_json()); return 0
RunAnalyzePrint ==
    /\ pc = "analysed"
    /\ pc' = "printed"
    /\ analysis' = [analysis EXCEPT !.stdout = to_json(analysis.result), !.exit_code = 0]
    /\ UNCHANGED <<url, code, rule, site, caller, envVars, observerVars, sessionVars,
                   tasks, ppa, cli, nEvents, nChanges, nNavs, passes, recoveryFailed>>

InitAnalyze ==
    /\ InitCommon /\ pc = "analyze" /\ cli = NoCli /\ code = <<>>
    /\ site \in Sites

NextAnalyze == AnalyzePage \/ RunAnalyzePrint

SpecAnalyze == InitAnalyze /\ [][NextAnalyze]_vars

\* ========================================================================
\* Properties
\* ========================================================================

\* C1: in a finalize pass over N >= 1 actions and a drained batch of M >= 0
\* change records, the RecordedAction of the first action holds the whole
\* batch and those of all later actions hold no change; with M = 0 the first
\* holds none either and the pass returns normally.
C1_BatchGoesToFirstAction ==
    (ppa.phase = "returned" /\ Len(ppa.actions) >= 1) =>
        /\ ppa.error = "none"
        /\ Len(recorded_actions) >= ppa.base + Len(ppa.actions)
        /\ recorded_actions[ppa.base + 1].changes = ppa.changes
        /\ \A i \in 2..Len(ppa.actions) : recorded_actions[ppa.base + i].changes = <<>>

\* A pass over two actions with a batch of at least one record has returned.
C1_Witness ==
    /\ ppa.phase = "returned" /\ Len(ppa.actions) >= 2 /\ Len(ppa.changes) >= 1
    /\ Len(recorded_actions[ppa.base + 1].changes) >= 1

\* C2: a finalize pass over the N actions of the Action Capturer appends
\* exactly N RecordedAction, the i-th with the type, selector and value of the
\* i-th action (no value for a click), in order; with N = 0 it appends none
\* and returns without draining the Collector.
C2_OneRecordedActionPerAction ==
    /\ ppa.phase = "returned" =>
          /\ Len(recorded_actions) = ppa.base + Len(ppa.actions)
          /\ \A i \in 1..Len(ppa.actions) :
                LET a == ppa.actions[i]
                    r == recorded_actions[ppa.base + i]
                IN  /\ r.action_type = a.type
                    /\ r.selector = a.selector
                    /\ r.value = (IF a.hasValue THEN a.value ELSE None)
                    /\ (a.type = "click" => r.value = None)
                    /\ (a.type = "fill" => a.hasValue)
    /\ ppa.phase = "empty" =>
          /\ ppa.actions = <<>>
          /\ Len(recorded_actions) = ppa.base
    /\ ppa.drained => Len(ppa.actions) >= 1

\* A pass over a click followed by a fill has returned.
C2_Witness ==
    /\ ppa.phase = "returned" /\ Len(ppa.actions) = 2
    /\ ppa.actions[1].type = "click" /\ ppa.actions[2].type = "fill"
    /\ recorded_actions[ppa.base + 2].value \in Values

\* C3: after any number of finalize passes every captured user action appears
\* at most once among the recorded actions, so their number never exceeds the
\* number of captured actions.
C3_NeverDoubleCounts ==
    /\ \A i, j \in 1..Len(recorded_actions) :
          i # j => recorded_actions[i].uid # recorded_actions[j].uid
    /\ Len(recorded_actions) <= nEvents

\* C4 as stated: a finalize call on a session whose Capturer or Collector was
\* not started fails with a NotInitializedError.
C4_RaisesNotInitializedError ==
    ppa.phase = "uninit" => ppa.error = "NotInitializedError"

\* C4 as amended: a finalize call on a session whose Capturer or Collector
\* was not started returns without raising, and changes neither the recorded
\* actions nor the collaborators.
C4_UninitializedReturnsUnchanged ==
    [][ (passes' # passes /\ (~tracker \/ ~observer)) =>
            /\ ppa'.phase = "uninit"
            /\ ppa'.error = "none"
            /\ UNCHANGED <<recorded_actions, envVars, observerVars, tracker, observer>> ]_vars

\* A finalize call has returned on a session that was not started.
C4_Witness == ppa.phase = "uninit" /\ ~tracker /\ passes >= 1

NoRecoveryPending == tasks.go_back = 0 /\ tasks.start_tracker = 0 /\ tasks.start_observer = 0

\* C5: once the main frame has navigated away during an active session and
\* recovery has run to its end (no recovery task is left, none has raised),
\* the page is back on the original document and the Action Capturer and the
\* Collector are both installed on it.
C5_RecoveryEndsOnOriginalPage ==
    (navHandler /\ browser = "open" /\ nNavs >= 1 /\ NoRecoveryPending /\ ~recoveryFailed) =>
        (histPos = 2 /\ winTracker /\ winObserving)

\* C6, for the Action Capturer's list: whatever restarts recovery performs, no
\* user action has two entries in window.__actionTracker.actions.
C6_RestartNeverDuplicatesCaptured ==
    \A i, j \in 1..Len(winActions) :
        (i # j /\ winActions[i].type # "null" /\ winActions[j].type # "null")
            => winActions[i].uid # winActions[j].uid

\* A periodic poll raises in this step.
PollRaises ==
    /\ ppa' # ppa \/ passes' # passes
    /\ ppa'.ctx = "poll" /\ ppa'.phase = "raised"

\* A recovery task raises in this step: it ends where it stood.
RecoveryRaises ==
    \/ tasks'.go_back = tasks.go_back - 1 /\ tasks'.start_tracker = tasks.start_tracker
    \/ tasks'.start_tracker = tasks.start_tracker - 1
          /\ tasks'.start_observer = tasks.start_observer
    \/ tasks'.start_observer = tasks.start_observer - 1
          /\ requestListeners' = requestListeners

\* C7: an exception inside navigation recovery or inside a periodic poll is
\* caught: the step leaves the recorded actions as they were, the session
\* stays active (browser and driver running, run_record not left), the loop
\* goes on after a failed poll, and a run that entered the session has made
\* its final pass when it ends.
C7_BestEffortFailuresAreCaught ==
    /\ [][ PollRaises =>
              /\ recorded_actions' = recorded_actions
              /\ pc' = "rr_loop"
              /\ browser' = "open" /\ playwright' = "started"
              /\ cli'.exit_code = None ]_vars
    /\ [][ RecoveryRaises =>
              /\ recorded_actions' = recorded_actions
              /\ pc' = pc /\ cli' = cli
              /\ browser' = browser /\ playwright' = playwright ]_vars
    /\ []((pc = "rr_done" /\ cli.entered) => cli.finals = 1)

\* A poll has raised after an action was recorded and a recovery task had
\* raised, and the loop is running.
C7_Witness ==
    /\ pc = "rr_loop" /\ ppa.ctx = "poll" /\ ppa.phase = "raised"
    /\ recoveryFailed /\ Len(recorded_actions) >= 1 /\ browser = "open"

\* A periodic poll starts in this step.
PollStarts == passes' # passes /\ ppa'.ctx = "poll"

\* C8: no periodic poll starts once the stop event is set (nor after the final
\* pass); exactly one final pass has run when the recorded actions are read;
\* the browser and the driver are released only after the read; the test is
\* written only after both releases were made.
C8_StopOrder ==
    /\ [][ PollStarts => (~cli.stop_event /\ cli.finals = 0) ]_vars
    /\ [](cli.finals <= 1)
    /\ [](cli.actions = "read" => cli.finals = 1)
    /\ []((cli.closeTried \/ cli.stopTried \/ browser = "closed" \/ playwright = "stopped")
              => cli.actions = "read")
    /\ [](cli.written => (cli.closeTried /\ cli.stopTried))

\* An interrupted run with a poll before the interrupt has written its test.
C8_Witness ==
    /\ pc = "rr_done" /\ cli.stop_event /\ cli.written /\ passes >= 2
    /\ browser = "closed" /\ playwright = "stopped"

\* C9, for run_record: when the command has ended after the browser was
\* launched, and no teardown call has raised, the browser and the driver are
\* released.
C9_ReleasedOnEveryExit ==
    (pc = "rr_done" /\ browser # None /\ ~cli.teardownRaised) =>
        (browser = "closed" /\ playwright = "stopped")

ReplayStatement(action_type) ==
    CASE action_type = "click" -> "page.click"
      [] action_type = "fill"  -> "page.fill"
      [] action_type = "press" -> "page.press"
      [] OTHER -> "none"

\* C11: for every RecordedAction of the session the generated test starts the
\* action's block with the matching replay statement (page.click, page.fill
\* with the recorded value, page.press) and never with the unknown-action-type
\* warning.
C11_EmitsMatchingReplayStatement ==
    \A i \in 1..Len(recorded_actions) :
        LET a == recorded_actions[i]
            stmt == generate_action(a)[1]
        IN  /\ stmt.stmt = ReplayStatement(a.action_type)
            /\ stmt.target = a.selector
            /\ (a.action_type = "fill" => stmt.a = a.value)

\* C12: a start (a successful __aenter__, the first or a later one on the
\* same session object) leaves no prior captured state: the Capturer's action
\* list, the Collector's pending batch and de-duplication memory and the
\* session's recorded-action list are empty right after it.
C12_StartClearsCapturedState ==
    [][ (playwright # "started" /\ playwright' = "started" /\ navHandler') =>
            /\ winActions' = <<>>
            /\ winMutations' = <<>> /\ network_requests' = <<>>
            /\ seen_selectors' = {} /\ seen_api_patterns' = {}
            /\ recorded_actions' = <<>> ]_vars

\* The change records one mutation, one request yields when processed alone.
ChangesOfMutation(m) == Range(processMutations(<<m>>, <<>>, {})[1])
ChangesOfRequest(r) == Range(processRequests(<<r>>, <<>>, {})[1])

\* C13: a record returned by an after_action() call was not returned by an
\* earlier call, unless the change it stems from occurred on the page after
\* the call before; and an after_action() call with no page activity since
\* the call before returns the empty list.
C13_AfterActionDrainsOnce ==
    ppa.ctx = "observer" =>
        /\ ppa.quiet => ppa.changes = <<>>
        /\ \A i \in 1..Len(ppa.changes) :
              ppa.changes[i] \in ppa.prev =>
                 \/ \E j \in 1..Len(ppa.mutations) :
                       /\ ppa.mutations[j].uid > ppa.prevAt
                       /\ ppa.changes[i] \in ChangesOfMutation(ppa.mutations[j])
                 \/ \E j \in 1..Len(ppa.requests) :
                       /\ ppa.requests[j].uid > ppa.prevAt
                       /\ ppa.changes[i] \in ChangesOfRequest(ppa.requests[j])

\* A second after_action() call has run with no page activity since the
\* first, which had returned records, the mutations still being in the page's
\* array.
C13_Witness ==
    /\ ppa.ctx = "observer" /\ ppa.quiet /\ ppa.prev # {}
    /\ ppa.mutations # <<>> /\ ppa.n >= 2

\* C14: the after_action() that follows a before_action() returns what the
\* changes since the reset yield with an empty memory: nothing an earlier
\* after_action() reported has an influence, for DOM additions and removals,
\* display changes and API requests alike.
C14_BeforeActionResetsCompletely ==
    (ppa.ctx = "observer" /\ ppa.afterReset) =>
        ppa.changes = limitChanges(processMutations(ppa.mutations, <<>>, {})[1])
                         \o processRequests(ppa.requests, <<>>, {})[1]

\* get_actions(): what the tracker returns now.
get_actions == fetch_and_convert_actions

selectorOf(e) == generate_selector(elementInfo(e))[1]

\* The indices of the fill actions of element e in a list of actions.
FillsOf(actions, e) ==
    {i \in 1..Len(actions) : actions[i].type = "fill" /\ actions[i].selector = selectorOf(e)}

\* The input events on element e among the user events.
InputsOn(events, e) ==
    {i \in 1..Len(events) : events[i].type = "fill" /\ events[i].el = e}

\* C15: after any sequence of input events on an input-like element, with
\* events on other elements in between and no clear(), get_actions() holds
\* exactly one fill action for the element, with the value of its last input
\* event, whatever attributes the element has.
C15_OneFillPerElement ==
    (SessionOpen /\ winTracker /\ caller.clears = 0) =>
        \A e \in TrackerElements :
            LET inputs == InputsOn(caller.events, e)
                fills == FillsOf(get_actions, e)
                last == CHOOSE i \in inputs : \A j \in inputs : j <= i
            IN  inputs # {} =>
                   /\ Cardinality(fills) = 1
                   /\ \A i \in fills : get_actions[i].value = caller.events[last].value

\* C16: right after clear() get_actions() is empty; later it holds only
\* actions performed since the clear, in the order they occurred, among them
\* every click on an element that is no input (no merging applies to it) and
\* the last fill of every element typed into.
C16_ClearRemovesOnlyTrackedActions ==
    (SessionOpen /\ winTracker /\ caller.clears >= 1) =>
        LET events == caller.events
            actions == get_actions
            uids == {events[i].uid : i \in 1..Len(events)}
        IN  /\ events = <<>> => actions = <<>>
            /\ \A i \in 1..Len(actions) : actions[i].uid \in uids
            /\ \A i, j \in 1..Len(actions) : i < j => actions[i].uid < actions[j].uid
            /\ \A i \in 1..Len(events) :
                  (events[i].type = "click" /\ ~isInputElement(events[i].el)) =>
                      \E k \in 1..Len(actions) :
                          actions[k].uid = events[i].uid /\ actions[k].type = "click"
            /\ \A i \in 1..Len(events) :
                  (events[i].type = "fill"
                     /\ \A j \in (i + 1)..Len(events) : events[j].el # events[i].el) =>
                      \E k \in 1..Len(actions) :
                          /\ actions[k].uid = events[i].uid
                          /\ actions[k].type = "fill" /\ actions[k].value = events[i].value

\* C17: outside the session context (never entered, or left) the page
\* property raises RuntimeError; inside it returns the live page.
C17_PageOnlyInsideContext ==
    /\ playwright \in {None, "stopped"} => page_property = "RuntimeError"
    /\ (SessionOpen /\ pc = "idle") => page_property = "page"

\* The categories in the order the specification fixes.
CategoryOrder ==
    <<"email", "url", "phone", "numeric", "min_length", "max_length", "required", "pattern">>

\* The category of the given kind has a sub-pattern that matches the snippet.
KindMatches(kind, c) ==
    \E d \in 1..Len(PATTERNS) :
        /\ PATTERNS[d].type = kind
        /\ \E k \in 1..Len(PATTERNS[d].patterns) : search(PATTERNS[d].patterns[k], c).found

\* C18: the kind returned for a snippet is the earliest category, in the
\* order email, url, phone, numeric, min_length, max_length, required,
\* pattern, with a matching sub-pattern; a snippet matching a min-length
\* check and an email fragment is classified email.
C18_FirstCategoryWins ==
    (pc = "inferred" /\ ~IsBlank(code)) =>
        /\ \A n \in 1..Len(CategoryOrder) :
              (/\ KindMatches(CategoryOrder[n], code)
               /\ \A m \in 1..(n - 1) : ~KindMatches(CategoryOrder[m], code))
                  => rule.type = CategoryOrder[n]
        /\ (KindMatches("min_length", code) /\ KindMatches("email", code))
              => rule.type = "email"

\* A snippet with a length check that captures a bound and with an email
\* fragment has been classified email.
C18_Witness ==
    /\ pc = "inferred" /\ rule.type = "email"
    /\ SearchLengthCheck(code, "<").found /\ KindMatches("email", code)

\* C19: infer returns a rule for every snippet and never raises; for an empty
\* or whitespace-only snippet and for a snippet no category matches the rule
\* is unknown, "Could not determine validation rule", without confidence.
C19_InferIsTotal ==
    pc = "inferred" =>
        /\ rule.type \in Range(CategoryOrder) \cup {"unknown"}
        /\ (IsBlank(code) \/ \A n \in 1..Len(CategoryOrder) : ~KindMatches(CategoryOrder[n], code))
              => /\ rule.type = "unknown"
                 /\ rule.description = <<"Could not determine validation rule">>
                 /\ rule.confidence = None

\* A whitespace-only snippet has been classified.
C19_Witness ==
    pc = "inferred" /\ Len(code) >= 2 /\ IsBlank(code) /\ rule.type = "unknown"

\* C20: for min_length and max_length the description comes from the first
\* sub-pattern of the category, in list order, that matches: with a captured
\* bound N it is "Must be at least N characters" / "Must be at most N
\* characters"; with the bare word it is the generic description of the
\* category, and no error is raised.
C20_DescriptionFromFirstMatch ==
    (pc = "inferred" /\ rule.type \in {"min_length", "max_length"}) =>
        LET pattern_def == CHOOSE d \in Range(PATTERNS) : d.type = rule.type
            matching == {k \in 1..Len(pattern_def.patterns) :
                            search(pattern_def.patterns[k], code).found}
            first == CHOOSE k \in matching : \A j \in matching : k <= j
            m == search(pattern_def.patterns[first], code)
            lead == IF rule.type = "min_length"
                    THEN "Must be at least " ELSE "Must be at most "
        IN  IF m.groups = 1
            THEN /\ m.group1 # <<>> /\ \A i \in 1..Len(m.group1) : m.group1[i] \in Digits
                 /\ rule.description = <<lead>> \o m.group1 \o <<" characters">>
            ELSE /\ pattern_def.patterns[first] \in {"minlength", "maxlength"}
                 /\ rule.description = <<"Validation rule: ", rule.type>>

\* A snippet with the bare word before a length check that captures 8 got
\* the description of the length check.
C20_Witness ==
    /\ pc = "inferred" /\ rule.type = "min_length"
    /\ Lower(code[1]) = "minlength" /\ SearchLengthCheck(code, "<").found
    /\ rule.description = <<"Must be at least ", "8", " characters">>

\* The confidence the specification fixes for a kind.
ConfidenceOf(kind) ==
    CASE kind \in {"email", "url", "numeric", "min_length", "max_length", "required"} -> "high"
      [] kind = "phone" -> "medium"
      [] kind = "pattern" -> "low"
      [] OTHER -> None

\* C21: the confidence of a result depends on its kind only: high for email,
\* url, numeric, min_length, max_length and required, medium for phone, low
\* for pattern, and absent exactly for unknown.
C21_ConfidenceByKind ==
    pc = "inferred" =>
        /\ rule.confidence = ConfidenceOf(rule.type)
        /\ (rule.confidence = None) <=> (rule.type = "unknown")

\* A phone rule found by its last sub-pattern has medium confidence.
C21_Witness ==
    /\ pc = "inferred" /\ rule.type = "phone" /\ rule.confidence = "medium"
    /\ \E i \in 1..Len(code) : code[i] = "phone"

\* C27: a finalize pass that raises, in get_actions() or in after_action(),
\* leaves the recorded-action list exactly as it was before the call; a pass
\* that returns has appended all N actions.
C27_PassIsAllOrNothing ==
    /\ [][ (ppa' # ppa /\ ppa'.phase = "raised") =>
              /\ recorded_actions' = recorded_actions
              /\ Len(recorded_actions') = ppa'.base ]_vars
    /\ [](ppa.phase = "waiting" => Len(recorded_actions) = ppa.base)
    /\ [](ppa.phase = "returned" => Len(recorded_actions) = ppa.base + Len(ppa.actions))

\* The drain has raised in a pass over at least one action, after an earlier
\* pass had recorded one.
C27_Witness ==
    /\ ppa.phase = "raised" /\ Len(ppa.actions) >= 1
    /\ Len(recorded_actions) >= 1 /\ Len(recorded_actions) = ppa.base

\* The user actions held by the Action Capturer or already recorded.
CapturedUids ==
    {winActions[i].uid : i \in {j \in 1..Len(winActions) : winActions[j].type # "null"}}
        \cup {recorded_actions[i].uid : i \in 1..Len(recorded_actions)}

\* C28: navigation recovery loses no captured action: an action the Action
\* Capturer holds stays held until it is in the recorded-action list, whatever
\* navigation and restart happen before it has been processed.
C28_NoCapturedActionLost ==
    [][ \A u \in CapturedUids : u \in CapturedUids' ]_vars

\* C29: recovery never overshoots: no recovery task goes back while the page
\* is on the original document, and a navigation that lands on the original
\* document leaves no additional go_back scheduled.
C29_RecoveryNeverOvershoots ==
    [][ /\ (navHandler /\ histPos' < histPos) => histPos # 2
        /\ (navHandler /\ histPos' # histPos /\ histPos' = 2) =>
               tasks'.go_back < tasks.go_back ]_vars

\* C30: de-duplication only suppresses repeats: a DOM or CSS change that an
\* after_action() call read from the page and did not return has a record for
\* its selector among those returned since the last before_action() (this
\* call's included).
C30_DedupOnlySuppressesRepeats ==
    ppa.ctx = "observer" =>
        \A j \in 1..Len(ppa.mutations) :
            \A c \in ChangesOfMutation(ppa.mutations[j]) :
                c \notin Range(ppa.changes) =>
                    \E d \in ppa.since : d.kind # "network" /\ d.target = c.target

\* analyze_page has returned.
Analysed == pc \in {"analysed", "printed"}

\* The pass got as far as inspecting the elements: no error of the whole pass.
ElementsInspected ==
    Analysed /\ \A k \in 1..Len(analysis.result.errors) :
                    analysis.result.errors[k].element # Nothing

\* The interactions of the result made for the element at position i.
InteractionsOf(i) ==
    {k \in 1..Len(analysis.result.interactions) : analysis.result.interactions[k].el = i}

\* C22: in the result of an analysis pass every inspected element with a
\* script listener has exactly one interaction and an element without
\* listeners has none, also when elements share a selector or the listener
\* lookup of an element fails.
C22_OneInteractionPerListenerElement ==
    ElementsInspected =>
        \A i \in 1..Len(site.elements) :
            Cardinality(InteractionsOf(i)) =
                IF site.elements[i].listener # "none" THEN 1 ELSE 0

\* The elements for which a call of the extraction throws.
FailingElements == {i \in 1..Len(site.elements) : site.elements[i].fails # "none"}

\* The page with no failing call.
SiteWithoutFailures ==
    [site EXCEPT !.elements = [i \in 1..Len(site.elements) |->
                                  [site.elements[i] EXCEPT !.fails = "none"]]]

NotOfFailing(interaction) == interaction.el \notin FailingElements

\* C23: when the extraction throws for an element, the result holds exactly
\* one error tagged extraction for that element, and the interactions of the
\* other elements are those of the same page without the failure.
C23_ElementFailureIsRecorded ==
    ElementsInspected =>
        /\ \A i \in FailingElements :
              \E k \in 1..Len(analysis.result.errors) :
                  /\ analysis.result.errors[k].phase = "extraction"
                  /\ analysis.result.errors[k].element = Just(build_selector(site.elements[i]))
        /\ Len(analysis.result.errors) = Cardinality(FailingElements)
        /\ SelectSeq(analysis.result.interactions, NotOfFailing)
              = SelectSeq(analyze_page(SiteWithoutFailures).result.interactions, NotOfFailing)

\* PageLoader.load() was called and did not return a page.
LoadFailed == loader_aenter(site).raised = "none" /\ load(site).raised # "none"

\* C24: analyze_page never raises; when loading fails the result has no
\* interaction and a first error of phase loading; every error's phase is
\* loading, discovery or extraction; the analyze command exits 0.
C24_AnalysisAlwaysCompletes ==
    Analysed =>
        /\ ~analysis.raised
        /\ LoadFailed =>
              /\ analysis.result.interactions = <<>>
              /\ analysis.result.errors # <<>>
              /\ analysis.result.errors[1].phase = "loading"
        /\ \A k \in 1..Len(analysis.result.errors) :
              analysis.result.errors[k].phase \in {"loading", "discovery", "extraction"}
        /\ pc = "printed" => analysis.exit_code = 0

\* C25: when analyze_page has returned, the browser and the driver that its
\* PageLoader launched are closed.
C25_AnalysisReleasesBrowser ==
    Analysed =>
        /\ analysis.loader.browser \in {None, "closed"}
        /\ analysis.loader.playwright \in {None, "stopped"}

\* C26: parsing the printed JSON gives back the url and the selector of every
\* interaction; a validation field is in the output exactly if it was not None
\* in the result, so that an unknown validation has neither rule_description
\* nor confidence.
C26_JsonRoundTrip ==
    pc = "printed" =>
        /\ loads(analysis.stdout.url) = Just(analysis.result.url)
        /\ Len(analysis.stdout.interactions) = Len(analysis.result.interactions)
        /\ \A i \in 1..Len(analysis.result.interactions) :
              LET source == analysis.result.interactions[i]
                  written == analysis.stdout.interactions[i]
              IN  /\ "selector" \in Keys(written.element)
                  /\ Get(written.element, "selector") = Just(source.element.selector)
                  /\ ("rule_description" \in Keys(written.validation))
                        <=> (source.validation.rule_description # Nothing)
                  /\ ("confidence" \in Keys(written.validation))
                        <=> (source.validation.confidence # Nothing)
                  /\ \A kv \in written.validation : kv[2] # dumps_null
                  /\ source.validation.type = "unknown" =>
                        Keys(written.validation) = {"type", "raw_code"}

\* The output holds an unknown validation of an element whose selector has
\* quotes in it, and a validation with description and confidence.
C26_Witness ==
    /\ pc = "printed"
    /\ \E i \in 1..Len(analysis.result.interactions) :
          /\ analysis.result.interactions[i].validation.type = "unknown"
          /\ \E h \in 1..Len(analysis.result.interactions[i].element.selector) :
                analysis.result.interactions[i].element.selector[h] = Quote
    /\ \E i \in 1..Len(analysis.result.interactions) :
          /\ analysis.result.interactions[i].validation.type = "email"
          /\ "confidence" \in Keys(analysis.stdout.interactions[i].validation)

====
